---- MODULE Spec2Model ----
(***************************************************************************)
(* ursparseness: conversion between a sparse file and the "ursparse"       *)
(* transfer format (src/ursparseness.c).                                   *)
(*                                                                         *)
(* Bytes are modelled by their ASCII codes.  A buffer (buff, sz) of the C  *)
(* code is a sequence; an index i of the C code addresses element i+1.     *)
(***************************************************************************)
EXTENDS Integers, Sequences, FiniteSets, TLC

\* ------------------------------------------------------------------ bytes
SP == 32
NL == 10
D0 == 48
D9 == 57

IsDigit(c) == c >= D0 /\ c <= D9
IsWs(c) == c = SP \/ c = NL

\* ------------------------------------------------------- decoder states
PARSE_ERROR == -1
PARSE_START == 0
PARSE_OFFSET == 1
PARSE_SIZE == 2
PARSE_NEWLINE == 3
PARSE_MEAT == 4

\* struct ursparse_state_data after memset(&data, 0, sizeof(data))
ZeroData == [state |-> PARSE_START, offset |-> 0, size |-> 0]

\* The output file (fd 1): its file position, the bytes written so far
\* (a function from the written positions), the seeks issued, and short: the
\* number of write() calls that accepted fewer bytes than they were offered.
EmptySink == [pos |-> 0, file |-> <<>>, seeks |-> <<>>, short |-> 0]

Min(a, b) == IF a < b THEN a ELSE b

\* ---------------------------------------------------------- parse_uint
\* the loop that consumes spaces and newlines before the number
RECURSIVE skip_ws(_, _)
skip_ws(buff, i) ==
    IF i < Len(buff) /\ IsWs(buff[i + 1]) THEN skip_ws(buff, i + 1) ELSE i

\* the digit loop; out_sz is left as it is on the error return
RECURSIVE parse_uint_loop(_, _, _, _)
parse_uint_loop(buff, i, out_sz, n) ==
    IF i >= Len(buff)
    THEN [r |-> i, out_sz |-> i, n |-> n]
    ELSE IF IsDigit(buff[i + 1])
    THEN parse_uint_loop(buff, i + 1, out_sz, n * 10 + (buff[i + 1] - D0))
    ELSE IF IsWs(buff[i + 1])
    THEN [r |-> 0, out_sz |-> i, n |-> n]
    ELSE [r |-> -1, out_sz |-> out_sz, n |-> n]

\* where the digit loop starts: leading blanks are skipped only while the
\* accumulator is zero
uint_start(buff, n) == IF n = 0 THEN skip_ws(buff, 0) ELSE 0

parse_uint(buff, out_sz, n) ==
    IF Len(buff) = 0
    THEN [r |-> -2, out_sz |-> out_sz, n |-> n]
    ELSE parse_uint_loop(buff, uint_start(buff, n), out_sz, n)

\* -------------------------------------------------------- parse_newline
RECURSIVE skip_sp(_, _)
skip_sp(buff, i) ==
    IF i < Len(buff) /\ buff[i + 1] = SP THEN skip_sp(buff, i + 1) ELSE i

parse_newline(buff, out_sz) ==
    IF Len(buff) = 0
    THEN [r |-> -2, out_sz |-> out_sz]
    ELSE LET i == skip_sp(buff, 0)
         IN  IF i >= Len(buff)
             THEN [r |-> i, out_sz |-> i]
             ELSE IF buff[i + 1] = NL
             THEN [r |-> 0, out_sz |-> i + 1]
             ELSE [r |-> -1, out_sz |-> out_sz]

\* ---------------------------------------------------------------- sink
\* write(1, buff, w) repeated until w bytes are in the file
sink_write(sink, buff, w) ==
    [sink EXCEPT
        !.file = [p \in (DOMAIN sink.file) \cup (sink.pos .. sink.pos + w - 1) |->
                    IF p >= sink.pos /\ p < sink.pos + w
                    THEN buff[p - sink.pos + 1]
                    ELSE sink.file[p]],
        !.pos = sink.pos + w]

\* the first write() of do_meat accepts env.wshort bytes, fewer than the sz
\* offered, and the loop goes on to offer the rest
short_write(sz, env) ==
    /\ env.wshort > 0 /\ env.wshort < sz
    /\ (env.wfail < 0 \/ env.wfail >= sz \/ env.wshort <= env.wfail)

\* the while (sz > 0) loop after a write() that accepted fewer bytes than
\* offered: written_bytes += r, and the rest is offered to write() again
on_short(buff, sz, sink, env) ==
    IF env.wfail >= 0 /\ env.wfail < sz
    THEN [r |-> -4, out_sz |-> env.wfail,
          sink |-> sink_write([sink EXCEPT !.short = @ + 1], buff, env.wfail)]
    ELSE [r |-> sz, out_sz |-> sz,
          sink |-> sink_write([sink EXCEPT !.short = @ + 1], buff, sz)]

\* do_meat writes sz bytes of buff.  env is the environment's answer:
\* env.wfail is the number of bytes the write() calls accept before one
\* returns -1 (wfail >= sz or wfail < 0: no write fails), env.wshort the
\* number of bytes the first write() accepts (0: all it is offered).  Every
\* write() of a positive count that does not fail accepts at least one byte.
do_meat(buff, sz, out_sz, sink, env) ==
    IF sz = 0
    THEN [r |-> -2, out_sz |-> out_sz, sink |-> sink]
    ELSE IF short_write(sz, env)
    THEN on_short(buff, sz, sink, env)
    ELSE IF env.wfail >= 0 /\ env.wfail < sz
    THEN [r |-> -4, out_sz |-> env.wfail, sink |-> sink_write(sink, buff, env.wfail)]
    ELSE [r |-> sz, out_sz |-> sz, sink |-> sink_write(sink, buff, sz)]

\* do_hole: lseek(1, offset, SEEK_SET); seekfail is the environment's answer
do_hole(offset, sink, seekfail) ==
    IF seekfail
    THEN [r |-> -1, sink |-> sink]
    ELSE [r |-> 0,
          sink |-> [sink EXCEPT !.pos = offset, !.seeks = Append(sink.seeks, offset)]]

\* ------------------------------------------------------- parse_ursparse
\* The result of one call: the return value r, *out_sz, the decoder state,
\* the sink, and used: the number of bytes of buff the call went through
\* (the sum the local extra_sz holds, plus the payload bytes written).
Result(r, out_sz, data, sink, used) ==
    [r |-> r, out_sz |-> out_sz, data |-> data, sink |-> sink, used |-> used]

\* variant: an error return zeroes *data as the end of a segment does
Fail_reset(r, out_sz, data, sink, used) == Result(r, out_sz, ZeroData, sink, used)

Fail(r, out_sz, data, sink, used) ==
    Result(r, out_sz, [data EXCEPT !.state = PARSE_ERROR], sink, used)

Drop(buff, k) == SubSeq(buff, k + 1, Len(buff))

\* variant: the completion of a segment resets the state and leaves the offset
meat_reset_state_only(data) == [data EXCEPT !.state = PARSE_START, !.size = 0]

\* what the completion of a segment leaves in *data
meat_reset(data) == ZeroData

\* the count reported when the call returns from PARSE_MEAT
meat_out_sz(written, extra_sz) == written + extra_sz

\* case PARSE_MEAT
case_meat(buff, out_sz, extra_sz, data, sink, env) ==
    LET m == do_meat(buff, IF Len(buff) > data.size THEN data.size ELSE Len(buff),
                     out_sz, sink, env)
    IN  IF m.r < 0
        THEN Fail(m.r, m.out_sz, data, m.sink, extra_sz)
        ELSE IF data.size < m.out_sz
        THEN Fail(-7, m.out_sz, data, m.sink, extra_sz)
        ELSE LET size == data.size - m.out_sz
                 total == meat_out_sz(m.out_sz, extra_sz)
             IN  IF size = 0
                 THEN Result(0, total, meat_reset(data), m.sink, extra_sz + m.out_sz)
                 ELSE Result(total, total, [data EXCEPT !.size = size], m.sink,
                             extra_sz + m.out_sz)

\* variant: a "need more" return from a header phase reports no byte consumed
need_more_out_sz_none(out_sz, extra_sz) == 0

\* the count reported when the call returns "need more" from a header phase
need_more_out_sz(out_sz, extra_sz) == out_sz

\* case PARSE_NEWLINE
case_newline(buff, out_sz, extra_sz, data, sink, env) ==
    LET p == parse_newline(buff, out_sz)
    IN  IF p.r < 0
        THEN Fail(p.r, p.out_sz, data, sink, extra_sz)
        ELSE IF p.r > 0
        THEN Result(need_more_out_sz(p.out_sz, extra_sz + p.out_sz),
                    need_more_out_sz(p.out_sz, extra_sz + p.out_sz),
                    data, sink, extra_sz + p.out_sz)
        ELSE LET h == do_hole(data.offset, sink, env.seekfail)
             IN  IF h.r < 0
                 THEN Fail(-8, p.out_sz, data, h.sink, extra_sz + p.out_sz)
                 ELSE case_meat(Drop(buff, p.out_sz), p.out_sz, extra_sz + p.out_sz,
                                [data EXCEPT !.state = PARSE_MEAT], h.sink, env)

\* case PARSE_SIZE
case_size(buff, out_sz, extra_sz, data, sink, env) ==
    LET p == parse_uint(buff, out_sz, data.size)
        d == [data EXCEPT !.size = p.n]
    IN  IF p.r < 0
        THEN Fail(p.r, p.out_sz, d, sink, extra_sz)
        ELSE IF p.r > 0
        THEN Result(need_more_out_sz(p.out_sz, extra_sz + p.out_sz),
                    need_more_out_sz(p.out_sz, extra_sz + p.out_sz),
                    d, sink, extra_sz + p.out_sz)
        ELSE case_newline(Drop(buff, p.out_sz), p.out_sz, extra_sz + p.out_sz,
                          [d EXCEPT !.state = PARSE_NEWLINE], sink, env)

\* case PARSE_OFFSET
case_offset(buff, out_sz, extra_sz, data, sink, env) ==
    LET p == parse_uint(buff, out_sz, data.offset)
        d == [data EXCEPT !.offset = p.n]
    IN  IF p.r < 0
        THEN Fail(p.r, p.out_sz, d, sink, extra_sz)
        ELSE IF p.r > 0
        THEN Result(p.out_sz, p.out_sz, d, sink, extra_sz + p.out_sz)
        ELSE case_size(Drop(buff, p.out_sz), p.out_sz, extra_sz + p.out_sz,
                       [d EXCEPT !.state = PARSE_SIZE], sink, env)

\* variant: a call in PARSE_ERROR starts over at the offset field
case_error_retry(buff, out_sz, data, sink, env) ==
    case_offset(buff, out_sz, 0, [ZeroData EXCEPT !.state = PARSE_OFFSET], sink, env)

\* case PARSE_ERROR
case_error(buff, out_sz, data, sink, env) == Result(-5, out_sz, data, sink, 0)

parse_ursparse(buff, out_sz, data, sink, env) ==
    IF Len(buff) = 0
    THEN Result(-2, out_sz, data, sink, 0)
    ELSE CASE data.state = PARSE_START ->
                case_offset(buff, out_sz, 0, [data EXCEPT !.state = PARSE_OFFSET], sink, env)
           [] data.state = PARSE_OFFSET -> case_offset(buff, out_sz, 0, data, sink, env)
           [] data.state = PARSE_SIZE -> case_size(buff, out_sz, 0, data, sink, env)
           [] data.state = PARSE_NEWLINE -> case_newline(buff, out_sz, 0, data, sink, env)
           [] data.state = PARSE_MEAT -> case_meat(buff, out_sz, 0, data, sink, env)
           [] data.state = PARSE_ERROR -> case_error(buff, out_sz, data, sink, env)
           [] OTHER -> Result(-6, out_sz, data, sink, 0)


\* ----------------------------------------------------- the ursparse format
\* "%ld": the decimal digits of n >= 0
RECURSIVE ToDec(_)
ToDec(n) == IF n < 10 THEN <<D0 + n>> ELSE ToDec(n \div 10) \o <<D0 + (n % 10)>>

\* Bounds of the inputs
MaxRecs == 2
MaxSize == 2

\* main: int block_size = 4096
block_size == 4096

\* The blanks around the fields of a header line: the form dprintf writes,
\* and one with every optional blank the format allows.
Canonical == [lead |-> <<>>, sep |-> <<SP>>, trail |-> <<>>]
Loose == [lead |-> <<SP>>, sep |-> <<NL>>, trail |-> <<SP>>]
Forms == {Canonical, Loose}

Offsets == {0, 12}
PayloadBytes == {65, 49}
BadBytes == {120}

Payload(b, n) == [i \in 1 .. n |-> b]

\* the records of one stream share the form of their headers and their
\* payload byte
Records(f, b) ==
    {[offset |-> o, size |-> n, payload |-> Payload(b, n), form |-> f] :
        o \in Offsets, n \in 0 .. MaxSize}

RecSeqs(f, b, k) == UNION {[1 .. n -> Records(f, b)] : n \in 0 .. k}

HeaderOf(rec) ==
    rec.form.lead \o ToDec(rec.offset) \o rec.form.sep \o ToDec(rec.size)
        \o rec.form.trail \o <<NL>>

RECURSIVE Render(_)
Render(recs) ==
    IF recs = <<>> THEN <<>>
    ELSE HeaderOf(Head(recs)) \o Head(recs).payload \o Render(Tail(recs))

\* the stream positions (1-based) of the header of the last record
LastHeaderPositions(recs) ==
    LET n == Len(recs)
        before == Len(Render(SubSeq(recs, 1, n - 1)))
    IN  before + 1 .. before + Len(HeaderOf(recs[n]))

\* the stream positions after which a record is complete
RECURSIVE Boundaries(_, _)
Boundaries(recs, base) ==
    IF recs = <<>> THEN {base}
    ELSE {base} \cup Boundaries(Tail(recs),
                               base + Len(HeaderOf(Head(recs))) + Head(recs).size)

\* every stream of at most MaxRecs records
ValidCases ==
    UNION {{[kind |-> "valid", recs |-> rs, pos |-> 0, byte |-> 0] :
                rs \in RecSeqs(f, b, MaxRecs)} : f \in Forms, b \in PayloadBytes}

\* a one-record stream cut short inside the record
TruncatedCases ==
    UNION {{[kind |-> "truncated", recs |-> rs, pos |-> k, byte |-> 0] :
                k \in (1 .. Len(Render(rs))) \ Boundaries(rs, 0)} :
           rs \in RecSeqs(Canonical, 65, 1)}

\* a stream with one byte of its last header replaced by a byte that is no
\* digit, space or newline
CorruptCases ==
    UNION {{[kind |-> "corrupt", recs |-> rs, pos |-> k, byte |-> b] :
                k \in LastHeaderPositions(rs), b \in BadBytes} :
           rs \in RecSeqs(Canonical, 65, MaxRecs) \ {<<>>}}

Cases == ValidCases \cup TruncatedCases \cup CorruptCases

CaseStream(g) ==
    LET s == Render(g.recs)
    IN  CASE g.kind = "valid" -> s
          [] g.kind = "truncated" -> SubSeq(s, 1, g.pos)
          [] g.kind = "corrupt" -> [i \in 1 .. Len(s) |-> IF i = g.pos THEN g.byte ELSE s[i]]

\* ------------------------------------------------------------ environment
OkEnv == [seekfail |-> FALSE, wfail |-> -1, wshort |-> 0]
Envs ==
    {OkEnv, [seekfail |-> TRUE, wfail |-> -1, wshort |-> 0]}
        \cup {[seekfail |-> FALSE, wfail |-> w, wshort |-> 0] : w \in 0 .. MaxSize - 1}
        \cup {[seekfail |-> FALSE, wfail |-> -1, wshort |-> w] : w \in 1 .. MaxSize - 1}

\* ------------------------------------------------------------------ state
VARIABLES
    gen,        \* the case the input was drawn from (not read by the program)
    input,      \* the bytes of the decoder's fd_in
    rdpos,      \* the file position of fd_in
    read_buff,  \* the bytes the last read() put in read_buff (nbytes of them)
    cursor,     \* do_ursparse: cursor
    data,       \* struct ursparse_state_data
    sink,       \* the output file, fd 1
    pc,         \* where the run is
    ret,        \* the value the operation returned (-1: not yet)
    last,       \* the last parse_ursparse call: r, *out_sz and the bytes it went through
    nreads,     \* the number of read() calls that returned bytes (3: three or more)
    fault,      \* an i/o call of the run failed (seek, allocation, read, write)
    src,        \* the sparse input of do_sparse
    start,      \* do_sparse: start
    end,        \* do_sparse: end
    out,        \* the bytes do_sparse has written to fd_out
    emitted,    \* the do_sparse_data calls: offset, size and bytes copied
    lookups,    \* the values the lseek calls of do_sparse returned, in order
    map         \* the run of do_map on the same input

decvars == <<input, rdpos, read_buff, cursor, data, sink, last, nreads>>
encvars == <<src, start, end, out, emitted, lookups, map>>
vars == <<gen, decvars, pc, ret, fault, encvars>>

NoCall == [r |-> 0, out_sz |-> 0, used |-> 0]

\* do_map before its first statement: its start and end, the values its lseek
\* calls returned, the pairs it printed, the bytes it wrote to stdout, the
\* value it returned (-1: not yet)
NoMap == [pc |-> "open", start |-> 0, end |-> 0, lookups |-> <<>>, pairs |-> <<>>,
          out |-> <<>>, ret |-> -1]

\* a run that reads no sparse input
NoSource == [size |-> 0, data |-> {}, byte |-> 0, eof_in_data |-> FALSE]

\* -------------------------------------------------------------- do_ursparse
InitRun ==
    /\ gen \in Cases
    /\ input = CaseStream(gen)
    /\ rdpos = 0
    /\ read_buff = <<>>
    /\ cursor = 0
    /\ data = ZeroData
    /\ sink = EmptySink
    /\ pc = "start"
    /\ ret = -1
    /\ last = NoCall
    /\ nreads = 0
    /\ fault = FALSE
    /\ src = NoSource
    /\ start = 0
    /\ end = 0
    /\ out = <<>>
    /\ emitted = <<>>
    /\ lookups = <<>>
    /\ map = NoMap

\* lseek(fd_in, 0, SEEK_SET), malloc(blk_sz), memset(&data, 0, sizeof(data))
Start ==
    /\ pc = "start"
    /\ \E o \in {"ok", "noseek", "nomem"} :
        /\ pc' = IF o = "ok" THEN "read" ELSE "done"
        /\ ret' = CASE o = "ok" -> ret [] o = "noseek" -> 1 [] o = "nomem" -> 2
        /\ fault' = (o # "ok")
    /\ data' = ZeroData
    /\ UNCHANGED <<gen, input, rdpos, read_buff, cursor, sink, last, nreads, encvars>>

\* the value do_ursparse returns when read() returns 0
eof_ret(d) == 0

\* read(fd_in, read_buff, blk_sz): an error, end of file, or a number of
\* bytes out of counts
ReadBytes(counts) ==
    /\ pc = "read"
    /\ \/ /\ pc' = "done"
          /\ ret' = 3
          /\ fault' = TRUE
          /\ UNCHANGED <<rdpos, read_buff, cursor, nreads>>
       \/ /\ rdpos = Len(input)
          /\ pc' = "done"
          /\ ret' = eof_ret(data)
          /\ UNCHANGED <<rdpos, read_buff, cursor, nreads, fault>>
       \/ \E n \in counts :
            /\ read_buff' = SubSeq(input, rdpos + 1, rdpos + n)
            /\ rdpos' = rdpos + n
            /\ cursor' = 0
            /\ nreads' = IF nreads < 3 THEN nreads + 1 ELSE nreads
            /\ pc' = "parse"
            /\ UNCHANGED <<ret, fault>>
    /\ UNCHANGED <<gen, input, data, sink, last, encvars>>

\* a read() that may return fewer bytes than asked for: 1..blk_sz of the
\* bytes left
Read == ReadBytes(1 .. Min(block_size, Len(input) - rdpos))

\* a read() of a regular file: blk_sz bytes, or all the bytes left
ReadFull ==
    ReadBytes({n \in {Min(block_size, Len(input) - rdpos)} : n > 0})

\* one pass of the loop over the block: a parse_ursparse call on the
\* unconsumed rest, then cursor += out_sz
Parse ==
    /\ pc = "parse"
    /\ \E env \in Envs :
        LET res == parse_ursparse(Drop(read_buff, cursor), 0, data, sink, env)
        IN  /\ data' = res.data
            /\ sink' = res.sink
            /\ last' = [r |-> res.r, out_sz |-> res.out_sz, used |-> res.used]
            /\ fault' = (fault \/ res.r = -4 \/ res.r = -8)
            /\ IF res.r < 0
               THEN /\ pc' = "done"
                    /\ ret' = 4
                    /\ UNCHANGED cursor
               ELSE /\ cursor' = cursor + res.out_sz
                    /\ pc' = IF cursor + res.out_sz < Len(read_buff) THEN "parse" ELSE "read"
                    /\ UNCHANGED ret
    /\ UNCHANGED <<gen, input, rdpos, read_buff, nreads, encvars>>

NextRun == Start \/ Read \/ Parse

SpecRun == InitRun /\ [][NextRun]_vars

\* do_ursparse with every call it can make made in the end: read() and
\* parse_ursparse return, and the process is scheduled.  This is the weak
\* fairness of NextRun, WF_vars(NextRun), with the enabling condition of a
\* step of the run written out: a statement is left to run until do_ursparse
\* has returned (pc # "done").
LiveRun ==
    InitRun /\ [][NextRun]_vars /\ ([]<>(pc = "done") \/ []<><<NextRun>>_vars)

\* do_ursparse on a regular file: every read() fills the block
NextFile == Start \/ ReadFull \/ Parse

SpecFile == InitRun /\ [][NextFile]_vars

\* ---------------------------------------------------- the decoder alone
\* parse_ursparse called on any buffers, one call after the other, on one
\* struct ursparse_state_data, as a caller other than do_ursparse may: MaxFed
\* bytes in all, in buffers of any length; rdpos counts the bytes handed over.
MaxFed == 6
TestBytes == {D0, D0 + 2, SP, NL, 65}

InitDecoder ==
    /\ gen = [kind |-> "calls", recs |-> <<>>, pos |-> 0, byte |-> 0]
    /\ input = <<>>
    /\ rdpos = 0
    /\ read_buff = <<>>
    /\ cursor = 0
    /\ data = ZeroData
    /\ sink = EmptySink
    /\ pc = "call"
    /\ ret = -1
    /\ last = NoCall
    /\ nreads = 0
    /\ fault = FALSE
    /\ src = NoSource
    /\ start = 0
    /\ end = 0
    /\ out = <<>>
    /\ emitted = <<>>
    /\ lookups = <<>>
    /\ map = NoMap

Call ==
    /\ pc = "call"
    /\ \E n \in 1 .. MaxFed - rdpos :
        \E buff \in [1 .. n -> TestBytes], env \in Envs :
            LET res == parse_ursparse(buff, 0, data, sink, env)
            IN  /\ read_buff' = buff
                /\ rdpos' = rdpos + n
                /\ data' = res.data
                /\ sink' = res.sink
                /\ last' = [r |-> res.r, out_sz |-> res.out_sz, used |-> res.used]
                /\ fault' = (fault \/ res.r = -4 \/ res.r = -8)
    /\ UNCHANGED <<gen, input, cursor, pc, ret, nreads, encvars>>

NextDecoder == Call

SpecDecoder == InitDecoder /\ [][NextDecoder]_vars

\* ------------------------------------------------- parse_uint on a field
\* parse_uint called as parse_ursparse calls it on one header field that
\* arrives in two buffers: on the first slice with a zeroed accumulator, and,
\* when that call returns "need more", on the continuation slice with the
\* same accumulator.  data.offset is the accumulator, gen.pos the length of
\* the first slice, ret the value the last call returned.
MaxDigits == 3
FieldDigits == {D0, D0 + 1, D9}

\* the fields: 1..MaxDigits digits and the blank that ends them
Fields ==
    UNION {{ds \o <<term>> : ds \in [1 .. n -> FieldDigits], term \in {SP, NL}} :
           n \in 1 .. MaxDigits}

InitUint ==
    /\ input \in Fields
    /\ gen \in {[kind |-> "field", recs |-> <<>>, pos |-> k, byte |-> 0] :
                    k \in 1 .. MaxDigits}
    /\ gen.pos < Len(input)
    /\ rdpos = 0
    /\ read_buff = <<>>
    /\ cursor = 0
    /\ data = ZeroData
    /\ sink = EmptySink
    /\ pc = "first"
    /\ ret = -1
    /\ last = NoCall
    /\ nreads = 0
    /\ fault = FALSE
    /\ src = NoSource
    /\ start = 0
    /\ end = 0
    /\ out = <<>>
    /\ emitted = <<>>
    /\ lookups = <<>>
    /\ map = NoMap

\* r = parse_uint(buff, sz, out_sz, &(data->ursparse.offset)) on the bytes of
\* the field from rdpos to upto
UintCall(upto, nextpc) ==
    LET p == parse_uint(SubSeq(input, rdpos + 1, upto), 0, data.offset)
    IN  /\ read_buff' = SubSeq(input, rdpos + 1, upto)
        /\ data' = [data EXCEPT !.offset = p.n]
        /\ last' = [r |-> p.r, out_sz |-> p.out_sz, used |-> p.out_sz]
        /\ rdpos' = rdpos + p.out_sz
        /\ IF p.r > 0 /\ rdpos + p.out_sz < Len(input)
           THEN pc' = nextpc /\ UNCHANGED ret
           ELSE pc' = "done" /\ ret' = p.r
        /\ UNCHANGED <<gen, input, cursor, sink, nreads, fault, encvars>>

UintFirst == pc = "first" /\ UintCall(gen.pos, "second")

UintSecond == pc = "second" /\ UintCall(Len(input), "done")

NextUint == UintFirst \/ UintSecond

SpecUint == InitUint /\ [][NextUint]_vars

\* --------------------------------------------------------------- do_sparse
\* The sparse input: size bytes, the positions in data hold the byte `byte',
\* the others are holes.  eof_in_data tells how the file system answers a
\* lookup for the next hole when data runs to the end of the file: lseek(2)
\* reports the end of the file as a hole (FALSE); the source interface of
\* the specification also has the answer "end of file while in data",
\* errno ENXIO (TRUE).
MaxFile == 4
ENXIO == -1
EIO == -2

Sources ==
    UNION {{[size |-> n, data |-> d, byte |-> b, eof_in_data |-> e] :
                d \in SUBSET (0 .. n - 1), b \in PayloadBytes,
                e \in {FALSE} \cup {x \in {TRUE} : n > 0}} :
           n \in 0 .. MaxFile}

SetMin(S) == CHOOSE x \in S : \A y \in S : x <= y

\* lseek(fd_in, pos, SEEK_DATA): the first data position at or after pos
seek_data(f, pos) ==
    LET later == {p \in f.data : p >= pos}
    IN  IF pos >= f.size \/ later = {} THEN ENXIO ELSE SetMin(later)

\* lseek(fd_in, pos, SEEK_HOLE): the first hole at or after pos, the end of
\* the file counting as one
seek_hole(f, pos) ==
    LET holes == {p \in pos .. f.size : p \notin f.data}
    IN  IF pos >= f.size THEN ENXIO
        ELSE IF SetMin(holes) = f.size /\ f.eof_in_data THEN ENXIO
        ELSE SetMin(holes)

\* the bytes of the input at [from, from + n)
SourceBytes(f, from, n) == [i \in 1 .. n |-> IF (from + i - 1) \in f.data THEN f.byte ELSE 0]

\* dprintf(fd_out, "%ld %ld\n", start, sz)
header_line(offset, sz) == ToDec(offset) \o <<SP>> \o ToDec(sz) \o <<NL>>

\* do_sparse_copy_data: one copy_file_range call, which copies `copied'
\* bytes (at most sz) or fails (copied < 0)
do_sparse_copy_data(f, o, from, sz, copied) ==
    IF copied < 0
    THEN [r |-> -1, out |-> o, n |-> 0]
    ELSE [r |-> Min(copied, sz), out |-> o \o SourceBytes(f, from, Min(copied, sz)),
          n |-> Min(copied, sz)]

\* do_sparse_data: the header line, then the copy.  e is the environment's
\* answer: e.hdr (dprintf succeeds) and e.copied.
do_sparse_data(f, o, from, sz, e) ==
    IF ~e.hdr
    THEN [r |-> -1, out |-> o, n |-> 0]
    ELSE LET c == do_sparse_copy_data(f, o \o header_line(from, sz), from, sz, e.copied)
         IN  [r |-> IF c.r = -1 THEN -1 ELSE 0, out |-> c.out, n |-> c.n]

\* the answers of the environment to one pass of the loop: the two lookups
\* may fail with an errno other than ENXIO, dprintf and copy_file_range may
\* fail, and copy_file_range may copy fewer bytes than asked for
SparseEnvs ==
    {[data_err |-> de, hole_err |-> he, hdr |-> h, copied |-> c] :
        de \in BOOLEAN, he \in BOOLEAN, h \in BOOLEAN, c \in -1 .. MaxFile}

InitSparse ==
    /\ gen = [kind |-> "sparse", recs |-> <<>>, pos |-> 0, byte |-> 0]
    /\ input = <<>>
    /\ rdpos = 0
    /\ read_buff = <<>>
    /\ cursor = 0
    /\ data = ZeroData
    /\ sink = EmptySink
    /\ pc = "open"
    /\ ret = -1
    /\ last = NoCall
    /\ nreads = 0
    /\ fault = FALSE
    /\ src \in Sources
    /\ start = 0
    /\ end = 0
    /\ out = <<>>
    /\ emitted = <<>>
    /\ lookups = <<>>
    /\ map = NoMap

\* off_t start = lseek(fd_in, 0, SEEK_SET); off_t end = 0;
SparseOpen ==
    /\ pc = "open"
    /\ \E ok \in BOOLEAN :
        /\ start' = IF ok THEN 0 ELSE -1
        /\ lookups' = <<IF ok THEN 0 ELSE -1>>
        /\ pc' = IF ok THEN "scan" ELSE "done"
        /\ ret' = IF ok THEN ret ELSE 1
        /\ fault' = ~ok
    /\ end' = 0
    /\ UNCHANGED <<gen, decvars, src, out, emitted, map>>

\* variant: no errno is taken for the end of the file
is_eof_never(r) == FALSE

\* if (errno == ENXIO) break: the lookup found the end of the file
is_eof(r) == r = ENXIO

\* variant: the end of the extent is taken for its length
extent_size_end(s, h) == h

\* the length of the extent [s, h): end-start
extent_size(s, h) == h - s

\* one pass of the while (1) loop of do_sparse
SparseScan ==
    /\ pc = "scan"
    /\ \E e \in SparseEnvs :
        LET s == IF e.data_err THEN EIO ELSE seek_data(src, start)
            h == IF e.hole_err THEN EIO ELSE seek_hole(src, s)
            d == do_sparse_data(src, out, s, extent_size(s, h), e)
        IN  /\ lookups' = lookups \o (IF s < 0 THEN <<s>> ELSE <<s, h>>)
            /\ IF s < 0
               THEN /\ start' = -1
                    /\ fault' = (fault \/ e.data_err)
                    /\ IF is_eof(s)
                       THEN pc' = "tail" /\ UNCHANGED ret
                       ELSE pc' = "done" /\ ret' = 1
                    /\ UNCHANGED <<end, out, emitted>>
               ELSE IF h < 0
               THEN /\ start' = s
                    /\ end' = -1
                    /\ fault' = (fault \/ e.hole_err)
                    /\ IF is_eof(h)
                       THEN pc' = "tail" /\ UNCHANGED ret
                       ELSE pc' = "done" /\ ret' = 1
                    /\ UNCHANGED <<out, emitted>>
               ELSE /\ out' = d.out
                    /\ end' = h
                    /\ fault' = (fault \/ ~e.hdr \/ e.copied < 0)
                    /\ IF d.r # 0
                       THEN /\ pc' = "done" /\ ret' = 2 /\ start' = s
                            /\ UNCHANGED emitted
                       ELSE /\ emitted' = Append(emitted, [offset |-> s, size |-> extent_size(s, h),
                                                           copied |-> d.n])
                            /\ start' = h
                            /\ UNCHANGED <<pc, ret>>
    /\ UNCHANGED <<gen, decvars, src, map>>

\* after the loop: the last do_sparse_data call, and the return
SparseTail ==
    /\ pc = "tail"
    /\ \E e \in SparseEnvs :
        IF start # -1 /\ end # -1
        THEN LET d == do_sparse_data(src, out, start, extent_size(start, end), e)
             IN  /\ out' = d.out
                 /\ fault' = (fault \/ ~e.hdr \/ e.copied < 0)
                 /\ IF d.r # 0
                    THEN ret' = 3 /\ UNCHANGED emitted
                    ELSE /\ ret' = 0
                         /\ emitted' = Append(emitted, [offset |-> start,
                                                        size |-> extent_size(start, end),
                                                        copied |-> d.n])
        ELSE /\ ret' = 0
             /\ UNCHANGED <<out, emitted, fault>>
    /\ pc' = "done"
    /\ UNCHANGED <<gen, decvars, src, start, end, lookups, map>>

NextSparse == SparseOpen \/ SparseScan \/ SparseTail

SpecSparse == InitSparse /\ [][NextSparse]_vars

\* ------------------------------------------------------------------ do_map
\* the answers of the environment to one pass of the loop of do_map
MapEnvs == {[data_err |-> de, hole_err |-> he] : de \in BOOLEAN, he \in BOOLEAN}

\* off_t start = lseek(fd_in, 0, SEEK_SET); off_t end = 0;
MapOpen ==
    /\ map.pc = "open"
    /\ gen.kind = "sparse"
    /\ \E ok \in BOOLEAN :
        map' = [map EXCEPT !.start = IF ok THEN 0 ELSE -1,
                           !.end = 0,
                           !.lookups = <<IF ok THEN 0 ELSE -1>>,
                           !.pc = IF ok THEN "scan" ELSE "done",
                           !.ret = IF ok THEN @ ELSE 1]
    /\ UNCHANGED <<gen, decvars, pc, ret, fault, src, start, end, out, emitted, lookups>>

\* variant: the end of the extent is printed for its length
map_pair_end(s, h) == [offset |-> s, size |-> h]

\* printf("%ld %ld\n", start, end - start): the pair printed
map_pair(s, h) == [offset |-> s, size |-> h - s]

\* what printf adds to the pairs printed and to stdout
map_printf(m, s, h) ==
    [m EXCEPT !.pairs = Append(@, map_pair(s, h)),
              !.out = @ \o header_line(map_pair(s, h).offset, map_pair(s, h).size)]

\* one pass of the while (1) loop of do_map
MapScan ==
    /\ map.pc = "scan"
    /\ \E e \in MapEnvs :
        LET s == IF e.data_err THEN EIO ELSE seek_data(src, map.start)
            h == IF e.hole_err THEN EIO ELSE seek_hole(src, s)
            looked == [map EXCEPT !.lookups = @ \o (IF s < 0 THEN <<s>> ELSE <<s, h>>)]
        IN  map' =
                IF s < 0
                THEN IF is_eof(s)
                     THEN [looked EXCEPT !.start = -1, !.pc = "tail"]
                     ELSE [looked EXCEPT !.start = -1, !.pc = "done", !.ret = 1]
                ELSE IF h < 0
                THEN IF is_eof(h)
                     THEN [looked EXCEPT !.start = s, !.end = -1, !.pc = "tail"]
                     ELSE [looked EXCEPT !.start = s, !.end = -1, !.pc = "done", !.ret = 1]
                ELSE [map_printf(looked, s, h) EXCEPT !.start = h, !.end = h]
    /\ UNCHANGED <<gen, decvars, pc, ret, fault, src, start, end, out, emitted, lookups>>

\* after the loop: the last printf, and the return
MapTail ==
    /\ map.pc = "tail"
    /\ map' = [(IF map.start # -1 /\ map.end # -1
                THEN map_printf(map, map.start, map.end)
                ELSE map) EXCEPT !.pc = "done", !.ret = 0]
    /\ UNCHANGED <<gen, decvars, pc, ret, fault, src, start, end, out, emitted, lookups>>

\* "ursparseness -s" and "ursparseness -m" on the same input, each at its own
\* pace
NextMap == SparseOpen \/ SparseScan \/ SparseTail \/ MapOpen \/ MapScan \/ MapTail

SpecMap == InitSparse /\ [][NextMap]_vars

\* ------------------------------------------------- encode, then decode
\* "ursparseness -s < source > file" and then "ursparseness -u < file > copy":
\* the bytes do_sparse wrote are the input of do_ursparse.
Handoff ==
    /\ pc = "done"
    /\ gen.kind = "sparse"
    /\ ret = 0
    /\ gen' = [gen EXCEPT !.kind = "encoded"]
    /\ input' = out
    /\ pc' = "start"
    /\ ret' = -1
    /\ UNCHANGED <<rdpos, read_buff, cursor, data, sink, last, nreads, fault, encvars>>

NextPipe == SparseOpen \/ SparseScan \/ SparseTail \/ Handoff \/ Start \/ Read \/ Parse

SpecPipe == InitSparse /\ [][NextPipe]_vars

\* The loop of do_ursparse over one block (no i/o call failing), run to its
\* end: the return value (0: the block is consumed, 4: a call failed, -1: a
\* call consumed nothing, so the loop does not end), the decoder and the sink.
RECURSIVE run_block(_, _, _, _)
run_block(block, cur, d, sk) ==
    IF cur >= Len(block)
    THEN [ret |-> 0, data |-> d, sink |-> sk]
    ELSE LET res == parse_ursparse(Drop(block, cur), 0, d, sk, OkEnv)
         IN  IF res.r < 0
             THEN [ret |-> 4, data |-> res.data, sink |-> res.sink]
             ELSE IF res.out_sz = 0
             THEN [ret |-> -1, data |-> res.data, sink |-> res.sink]
             ELSE run_block(block, cur + res.out_sz, res.data, res.sink)

\* do_ursparse on a stream that one read() delivers whole
DecodeWhole(stream) == run_block(stream, 0, ZeroData, EmptySink)

\* ------------------------------------------------ what a stream should give
RECURSIVE OffsetsOf(_)
OffsetsOf(recs) ==
    IF recs = <<>> THEN <<>> ELSE <<Head(recs).offset>> \o OffsetsOf(Tail(recs))

Covers(rec, p) == rec.offset <= p /\ p < rec.offset + rec.size

\* the file the records describe: at each position the payload byte of the
\* last record that covers it
ExpectedFile(recs) ==
    LET covered == UNION {rec.offset .. rec.offset + rec.size - 1 :
                            rec \in {recs[i] : i \in 1 .. Len(recs)}}
        lastrec(p) == recs[CHOOSE i \in 1 .. Len(recs) :
                            /\ Covers(recs[i], p)
                            /\ \A j \in i + 1 .. Len(recs) : ~Covers(recs[j], p)]
    IN  [p \in covered |-> lastrec(p).payload[p - lastrec(p).offset + 1]]

Done == pc = "done"

\* ------------------------------------------------------------------ properties

\* C1 (split invariance): a valid stream fed in at most two chunks gives the
\* same return value, the same seeks and the same bytes at the same positions
\* of the output as the stream fed whole.
C1_SplitInvariance ==
    (Done /\ gen.kind = "valid" /\ ~fault /\ nreads <= 2) =>
        LET w == DecodeWhole(input)
        IN  /\ ret = w.ret
            /\ sink.seeks = w.sink.seeks
            /\ sink.file = w.sink.file

\* C3 (truncated payload): a run whose input ends while the decoder is inside
\* a record (not at PARSE_START) returns nonzero.
C3_TruncationIsAnError ==
    (Done /\ ~fault /\ data.state # PARSE_START /\ data.state # PARSE_ERROR) => ret # 0

\* C5 (malformed header): when a byte of the last record's header is no digit,
\* space or newline, then under every chunking the run fails with the decoder
\* in PARSE_ERROR, the output has no seek for that record (fewer seeks than
\* records) and the bad byte is never written to the output.
C5_MalformedHeader ==
    (Done /\ gen.kind = "corrupt" /\ ~fault) =>
        /\ ret = 4
        /\ data.state = PARSE_ERROR
        /\ Len(sink.seeks) < Len(gen.recs)
        /\ \A p \in DOMAIN sink.file : sink.file[p] # gen.byte

AllPositive(recs) == \A i \in 1 .. Len(recs) : recs[i].size > 0

\* C9 (a valid stream in one chunk): when every record has length > 0 and one
\* read() delivers the whole stream, the run returns 0, the decoder is back in
\* PARSE_START, one seek per record went to its offset, and the output holds
\* exactly the payload bytes at [offset, offset+length) and nothing else.
C9_SingleChunkDecode ==
    (Done /\ gen.kind = "valid" /\ AllPositive(gen.recs) /\ ~fault
        /\ nreads <= 1 /\ rdpos = Len(input)) =>
        /\ ret = 0
        /\ data = ZeroData
        /\ sink.seeks = OffsetsOf(gen.recs)
        /\ sink.file = ExpectedFile(gen.recs)

\* C9 witness: a two-record stream with a hole before its data, decoded from
\* one chunk.
C9_Witness ==
    /\ Done /\ gen.kind = "valid" /\ ~fault /\ nreads = 1 /\ ret = 0
    /\ Len(gen.recs) = 2 /\ AllPositive(gen.recs)
    /\ gen.recs[1].offset = 12
    /\ gen.recs[2].size = MaxSize
    /\ Len(sink.seeks) = 2

\* C10 (bytes consumed): every parse_ursparse call that returns no error
\* reports in *out_sz the number of bytes of its buffer it went through,
\* header bytes of earlier phases of the same call included.
C10_BytesConsumed == last.r >= 0 => last.out_sz = last.used

\* C4 (Error is absorbing): a call made with the decoder in PARSE_ERROR, on any
\* buffer, returns an error, goes through no byte of the buffer, leaves the
\* state, the offset and the size as they are, and issues no seek and no write.
C4_ErrorAbsorbing ==
    [][(data.state = PARSE_ERROR /\ rdpos' > rdpos) =>
            /\ last'.r < 0
            /\ last'.used = 0
            /\ data' = data
            /\ sink' = sink]_vars

\* C4 witness: a call was made after the decoder entered PARSE_ERROR through
\* a failed write, bytes of the segment still to come.
C4_Witness ==
    /\ data.state = PARSE_ERROR
    /\ fault
    /\ data.size > 0
    /\ last.r = -5

\* ----------------------------------------------------- properties of do_sparse
\* the data extents of a file, from its layout: an extent starts at a data
\* position whose predecessor is no data, and ends at the next position that
\* is no data
ExtentStarts(f) == {p \in f.data : (p - 1) \notin f.data}
ExtentEnd(f, p) == SetMin({q \in p + 1 .. f.size : q \notin f.data})

Encoded == gen.kind = "sparse" /\ Done
Decoded == gen.kind = "encoded" /\ Done
FullCopies == \A i \in 1 .. Len(emitted) : emitted[i].copied = emitted[i].size

\* C6 (final extent at end of file): when the lookup for the next hole
\* answers "end of file while in data" after a data extent's start was found,
\* do_sparse emits a last record from that start to the end of the file.
C6_FinalExtentEmitted ==
    (Encoded /\ ~fault /\ start # -1 /\ end = -1) =>
        /\ emitted # <<>>
        /\ emitted[Len(emitted)].offset = start
        /\ emitted[Len(emitted)].offset + emitted[Len(emitted)].size = src.size

\* C7 (extent enumeration): on a file whose lookups answer as lseek(2) does,
\* do_sparse returns 0 having emitted one record per data extent, in
\* ascending order of offset, with the extent's start as offset and its end
\* minus its start as length, and no other record.
C7_ExtentEnumeration ==
    (Encoded /\ ~fault /\ ~src.eof_in_data) =>
        /\ ret = 0
        /\ Len(emitted) = Cardinality(ExtentStarts(src))
        /\ \A i \in 1 .. Len(emitted) :
            /\ emitted[i].offset \in ExtentStarts(src)
            /\ emitted[i].size = ExtentEnd(src, emitted[i].offset) - emitted[i].offset
            /\ \A j \in 1 .. i - 1 : emitted[j].offset < emitted[i].offset

\* C7 witness: two extents with a hole before each, the second running to
\* the end of the file.
C7_Witness ==
    /\ Encoded /\ ~fault /\ ~src.eof_in_data /\ ret = 0
    /\ Len(emitted) = 2
    /\ emitted[1].offset > 0
    /\ emitted[2].offset + emitted[2].size = src.size

\* C8 (empty or fully sparse input): do_sparse on an input without data
\* writes nothing and returns 0; do_ursparse on the empty stream it wrote
\* issues no seek and no write and returns 0.
C8_EmptyInput ==
    /\ (Encoded /\ ~fault /\ src.data = {}) =>
            (ret = 0 /\ emitted = <<>> /\ out = <<>>)
    /\ (Decoded /\ ~fault /\ input = <<>>) =>
            (ret = 0 /\ sink = EmptySink /\ data = ZeroData)

\* C8 witness: a file of holes only was encoded and the empty stream decoded.
C8_Witness ==
    Decoded /\ ~fault /\ src.data = {} /\ src.size = MaxFile /\ input = <<>> /\ ret = 0

\* the file the decoder should rebuild: the data bytes of the source
SourceFile(f) == [p \in f.data |-> f.byte]

\* C2 (round trip): decoding what do_sparse wrote gives back the data extents
\* and bytes of the source, under every chunking of the stream (stated here
\* for the runs in which no i/o call fails, every copy is complete and the
\* lookups answer as lseek(2) does).
C2_RoundTrip ==
    (Decoded /\ ~fault /\ ~src.eof_in_data /\ FullCopies) =>
        (ret = 0 /\ sink.file = SourceFile(src))

\* the round trip of a stream that copy_file_range copied in full and that
\* one read() delivers whole (the chunking under which the round trip holds)
RoundTripWhole ==
    (Decoded /\ ~fault /\ ~src.eof_in_data /\ FullCopies /\ nreads <= 1 /\ rdpos = Len(input))
        => (ret = 0 /\ sink.file = SourceFile(src))

\* ------------------------------------------- properties of parse_ursparse
\* a step of the run that is one parse_ursparse call
IsCall == pc = "parse" \/ (pc = "call" /\ rdpos' > rdpos)

\* the call issued a seek: sink.seeks is one longer
Seeked == Len(sink'.seeks) = Len(sink.seeks) + 1

\* C11 (seek before write): in a run over a valid stream, under every
\* chunking, a parse_ursparse call issues at most one seek; it issues none
\* when it resumes in PARSE_MEAT; the n-th seek of the run goes to the offset
\* the n-th record of the stream declares; a call that starts outside
\* PARSE_MEAT and moves the output position has seeked first; and a call whose
\* seek failed leaves the output as it was.
C11_SeekBeforeWrite ==
    [][(IsCall /\ gen.kind = "valid") =>
        /\ sink'.seeks = sink.seeks \/ Seeked
        /\ data.state = PARSE_MEAT => sink'.seeks = sink.seeks
        /\ Seeked =>
            /\ SubSeq(sink'.seeks, 1, Len(sink.seeks)) = sink.seeks
            /\ Len(sink'.seeks) <= Len(gen.recs)
            /\ sink'.seeks[Len(sink'.seeks)] = gen.recs[Len(sink'.seeks)].offset
            /\ data.state # PARSE_MEAT
            /\ sink'.pos >= sink'.seeks[Len(sink'.seeks)]
        /\ (data.state # PARSE_MEAT /\ sink' # sink) => Seeked
        /\ last'.r = -8 => sink' = sink]_vars

\* C12 (sink underrun is fatal): a parse_ursparse call in which a write()
\* accepted fewer payload bytes than it was offered returns an error and
\* leaves the decoder in PARSE_ERROR, and the bytes the write() did not accept
\* are not written by that call.
C12_UnderrunIsFatal ==
    [][(IsCall /\ sink'.short > sink.short) =>
        /\ last'.r < 0
        /\ data'.state = PARSE_ERROR
        /\ \E env \in Envs :
            /\ env.wshort > 0
            /\ sink'.pos = (IF Seeked THEN sink'.seeks[Len(sink'.seeks)] ELSE sink.pos)
                                + env.wshort]_vars

\* the output position at which the payload bytes of the call start
WriteBase == IF Seeked THEN sink'.seeks[Len(sink'.seeks)] ELSE sink.pos

\* C13 (reset discipline): in every reachable state PARSE_START comes with
\* offset = 0 and size = 0; a call leaves the decoder in PARSE_START only when
\* it returns 0 after writing the payload bytes that brought the remaining
\* size to 0, and then offset and size are zeroed; a call that returns "need
\* more" or an error leaves the decoder outside PARSE_START and zeroes neither
\* a nonzero offset nor a nonzero size.
C13_ResetDiscipline ==
    /\ [](data.state = PARSE_START => data = ZeroData)
    /\ [][IsCall =>
            /\ data'.state = PARSE_START =>
                /\ last'.r = 0
                /\ data' = ZeroData
                /\ sink'.pos > WriteBase
                /\ data.state = PARSE_MEAT => sink'.pos - WriteBase = data.size
            /\ last'.r = 0 => data' = ZeroData
            /\ last'.r # 0 =>
                /\ data'.state # PARSE_START
                /\ data.offset > 0 => data'.offset >= data.offset
                /\ data.size > 0 => data'.size > 0]_vars

\* C13 witness: a segment of two bytes at offset 2 came to its end in a call
\* that resumed in PARSE_MEAT, and the decoder was zeroed.
C13_Witness ==
    /\ pc = "call"
    /\ data = ZeroData
    /\ last.r = 0 /\ last.used = 1
    /\ sink.seeks = <<2>>
    /\ sink.pos = 4

\* C14 (zero-length record): a valid stream that has a record of declared
\* length 0, delivered whole by one read(), decodes as any other: the run
\* returns 0, every record got its seek, no payload byte is written for the
\* zero-length records, the last call returned 0 ("segment complete") with
\* the bytes it went through reported as consumed, and the decoder is back in
\* PARSE_START.
C14_ZeroLengthRecord ==
    (Done /\ gen.kind = "valid" /\ ~fault /\ nreads <= 1 /\ rdpos = Len(input)
        /\ gen.recs # <<>> /\ ~AllPositive(gen.recs)) =>
        /\ ret = 0
        /\ data = ZeroData
        /\ sink.seeks = OffsetsOf(gen.recs)
        /\ sink.file = ExpectedFile(gen.recs)
        /\ last.r = 0
        /\ last.out_sz = last.used

\* the records of declared length > 0, in every form of header
PayloadRecords ==
    UNION {{rec \in Records(f, b) : rec.size > 0} : f \in Forms, b \in PayloadBytes}

\* C15 (chunk ending at the header boundary): a parse_ursparse call of the run
\* that starts in PARSE_START on a buffer that is exactly the header of a
\* record of declared length > 0 returns "need more" (r > 0) with the whole
\* buffer reported as consumed, has seeked to the declared offset, and leaves
\* the decoder in PARSE_MEAT with the declared length as its remaining size.
C15_HeaderBoundary ==
    [][(pc = "parse" /\ data = ZeroData) =>
        \A rec \in PayloadRecords :
            Drop(read_buff, cursor) = HeaderOf(rec) =>
                /\ last'.r > 0
                /\ last'.out_sz = Len(HeaderOf(rec))
                /\ data' = [state |-> PARSE_MEAT, offset |-> rec.offset, size |-> rec.size]
                /\ sink'.seeks = Append(sink.seeks, rec.offset)
                /\ sink'.file = sink.file]_vars

\* C16 (resumable integer field): parse_uint on the first slice of a field and
\* then on its continuation, with the same accumulator, ends with the outcome
\* (0: done) and the value that one parse_uint call on the whole field gives.
C16_ResumableField ==
    (pc = "done" /\ gen.kind = "field") =>
        LET w == parse_uint(input, 0, 0)
        IN  /\ ret = w.r
            /\ data.offset = w.n

\* C17 (record framing on encode): every do_sparse_data call that reported
\* success wrote, after its header line, as many payload bytes as the header
\* declares, also when copy_file_range copied fewer bytes than asked for in
\* one call.
C17_RecordFraming ==
    gen.kind = "sparse" =>
        \A i \in 1 .. Len(emitted) : emitted[i].copied = emitted[i].size

\* the header lines of the records do_sparse emitted
RECURSIVE HeaderLines(_)
HeaderLines(es) ==
    IF es = <<>> THEN <<>>
    ELSE header_line(Head(es).offset, Head(es).size) \o HeaderLines(Tail(es))

\* C18 (map mode equivalence): when do_sparse and do_map have run on the same
\* input and their lseek calls were answered alike, and no write of do_sparse
\* to its output failed, do_map printed the (offset, length) pairs of the
\* headers do_sparse wrote, in the same order, returned the value do_sparse
\* returned, and wrote nothing but those lines.
C18_MapEquivalence ==
    (Encoded /\ map.pc = "done" /\ map.lookups = lookups /\ ret # 2 /\ ret # 3) =>
        /\ map.pairs = [i \in 1 .. Len(emitted) |->
                            [offset |-> emitted[i].offset, size |-> emitted[i].size]]
        /\ map.ret = ret
        /\ map.out = HeaderLines(emitted)

\* C18 witness: both ran over a file of two data extents, the second lookup
\* for data of the third pass answered alike for both, and both printed two
\* pairs.
C18_Witness ==
    /\ Encoded /\ map.pc = "done" /\ map.lookups = lookups /\ ret = 0
    /\ Len(emitted) = 2
    /\ Len(map.pairs) = 2
    /\ map.pairs[2].offset > map.pairs[1].offset + map.pairs[1].size

\* C18 second witness: a lookup failed alike for both after one pair.
C18_WitnessError ==
    /\ Encoded /\ map.pc = "done" /\ map.lookups = lookups /\ ret = 1
    /\ Len(map.pairs) = 1

\* C19 (progress and termination): every parse_ursparse call the run is about
\* to make, whatever the output answers, returns an error or reports a
\* consumed count of at least 1 and at most the bytes left in the block, so
\* cursor never exceeds the block length; and every run over a finite input
\* ends, with success or with an error.
C19_Progress ==
    /\ [](pc = "parse" =>
            \A env \in Envs :
                LET res == parse_ursparse(Drop(read_buff, cursor), 0, data, sink, env)
                IN  res.r < 0 \/
                        (res.out_sz >= 1 /\ res.out_sz <= Len(read_buff) - cursor))
    /\ [](cursor <= Len(read_buff))
    /\ <>Done

\* C19 witness: a run over a stream of two records ended with success after
\* three or more reads.
C19_Witness ==
    /\ Done /\ ret = 0 /\ nreads = 3
    /\ gen.kind = "valid" /\ Len(gen.recs) = 2
    /\ Len(sink.seeks) = 2

\* C20 (remaining size): between two calls PARSE_MEAT comes with a remaining
\* size > 0; a call that resumes in PARSE_MEAT and returns no error writes at
\* least 1 and at most min(buffer bytes, remaining size) payload bytes and
\* takes exactly that number off the remaining size; and in a run over a valid
\* stream the payload written since the last seek never exceeds the length
\* the header of that record declares.
C20_RemainingSize ==
    /\ [](data.state = PARSE_MEAT => data.size > 0)
    /\ [][(pc = "parse" /\ data.state = PARSE_MEAT /\ last'.r >= 0) =>
            LET written == sink'.pos - sink.pos
            IN  /\ written >= 1
                /\ written <= Min(Len(read_buff) - cursor, data.size)
                /\ data'.state = PARSE_MEAT => data'.size = data.size - written
                /\ data'.state # PARSE_MEAT => (data' = ZeroData /\ written = data.size)]_vars
    /\ []((gen.kind = "valid" /\ sink.seeks # <<>>) =>
            /\ Len(sink.seeks) <= Len(gen.recs)
            /\ sink.pos - sink.seeks[Len(sink.seeks)] <= gen.recs[Len(sink.seeks)].size)

====
